---- MODULE Spec2Model ----
(***************************************************************************)
(* Model of merra_scraper_latest.py: the MERRA-2 per-station batch script. *)
(*                                                                         *)
(* Numbers that the script holds as floats are modelled as exact rationals *)
(* [num, den] with den > 0.  0.5 and 0.625 are dyadic, so for inputs that  *)
(* are multiples of 1/16 degree the float computation is exact wherever a  *)
(* comparison is decided (ties included).                                  *)
(*                                                                         *)
(* Strings built by concatenation or format() are modelled as tuples or    *)
(* records of their parts; digit strings are sequences of digits, so that  *)
(* int() and the {y}{m}{d} concatenation are computed, not assumed.        *)
(***************************************************************************)
EXTENDS Integers, Sequences, FiniteSets, TLC

VARIABLES
    argv,              \* sys.argv
    pc,                \* position of the script
    run,               \* how many times the script has been started
    complete_dataset,  \* rows read from the input table (pd.read_csv)
    index,             \* iterrows() position, 0-based
    hasColumn,         \* the frame has a column named field_name
    column,            \* the field_name column: row index -> value or NaN
    fs,                \* local files: path -> content
    remote,            \* what the download of each URL does
    calls,             \* download calls issued in this run
    opens,             \* row indices whose file xr.open_mfdataset was asked to open in this run
    input,             \* the rows of the input table named by sys.argv[1]
    fs0,               \* the local files as they were when this run started
    output,            \* the CSV file written by to_csv (<<>> while none exists)
    writes,            \* to_csv calls in this run
    fn, arg, ret       \* one call of a pure helper: its name, argument and result

vars == <<argv, pc, run, complete_dataset, index, hasColumn, column, fs, remote,
          calls, opens, input, fs0, output, writes, fn, arg, ret>>

(***************************** bounds **************************************)
MaxRows == 2       \* rows of the input table
MaxRuns == 2       \* starts of the script on the same input
Resolution == 16   \* helper inputs are the multiples of 1/Resolution degree
Margin == 1        \* helper inputs reach this many degrees outside the valid range
YearSpan == 12     \* helper years reach this far before 1980 and after 2011

(************************* configuration, lines 30-42 **********************)
field_id == "T2M"
field_name == "temperature_MERRA"
database_name == "M2I1NXASM"
database_id == "inst1_2d_asm_Nx"
aggregator == "mean"
NUMBER_OF_CONNECTIONS == 5
database_url == <<"https://goldsmr4.gesdisc.eosdis.nasa.gov/opendap/MERRA2/", database_name, ".5.12.4/">>

\* np.arange(0, 361) and np.arange(0, 576): ascending arrays, 1-based here
lat_coords == [i \in 1..361 |-> i - 1]
lon_coords_long == [i \in 1..577 |-> i - 1]
lon_coords == [i \in 1..576 |-> i - 1]

(****************************** rationals **********************************)
Rat(n, d) == [num |-> n, den |-> d]
RatAdd(a, b) == Rat(a.num * b.den + b.num * a.den, a.den * b.den)
RatSub(a, b) == Rat(a.num * b.den - b.num * a.den, a.den * b.den)
RatDiv(a, b) == IF b.num > 0 THEN Rat(a.num * b.den, a.den * b.num)
                             ELSE Rat(-(a.num * b.den), -(a.den * b.num))
RatLeq(a, b) == a.num * b.den <= b.num * a.den
RatEq(a, b) == a.num * b.den = b.num * a.den
Abs(x) == IF x < 0 THEN -x ELSE x

(************************* digit strings ***********************************)
RECURSIVE int(_)
\* int(s) of a string of decimal digits
int(s) == IF Len(s) = 0 THEN 0 ELSE 10 * int(SubSeq(s, 1, Len(s) - 1)) + s[Len(s)]

RECURSIVE str(_)
\* the decimal digits of n >= 0
str(n) == IF n < 10 THEN <<n>> ELSE str(n \div 10) \o <<n % 10>>

(******************** translate_year_to_file_number, 47-67 *****************)
Raise(msg) == [raised |-> TRUE, value |-> msg]
Return(v) == [raised |-> FALSE, value |-> v]

translate_year_shifted(year) ==
    LET y == int(year) IN
    IF y >= 1980 /\ y <= 1992 THEN Return("100")
    ELSE IF y > 1992 /\ y < 2001 THEN Return("200")
    ELSE IF y >= 2001 /\ y < 2011 THEN Return("300")
    ELSE IF y >= 2011 THEN Return("400")
    ELSE Raise("The specified year is out of range.")

translate_year_to_file_number(year) ==
    LET y == int(year) IN
    IF y >= 1980 /\ y < 1992 THEN Return("100")
    ELSE IF y >= 1992 /\ y < 2001 THEN Return("200")
    ELSE IF y >= 2001 /\ y < 2011 THEN Return("300")
    ELSE IF y >= 2011 THEN Return("400")
    ELSE Raise("The specified year is out of range.")

(************************ generate_url_params, 70-75 ***********************)
\* each parameter with the three subscripts appended; the list stands for the ','.join
generate_url_params(parameter, time_para, lat_para, lon_para) ==
    [i \in 1..Len(parameter) |-> <<parameter[i], time_para, lat_para, lon_para>>]

(************************* generate_file_name, 78-82 ***********************)
\* '{loc}_{num}.{name}.{y}{m}{d}.nc4'; the call raises when the year has no bracket
generate_file_name(loc, year, month, day, dataset_name) ==
    LET file_num == translate_year_to_file_number(year) IN
    IF file_num.raised THEN file_num
    ELSE Return([loc |-> loc, num |-> file_num.value, name |-> dataset_name,
                 ymd |-> year \o month \o day, ext |-> "nc4"])

(******************* coordinate translation, 84-109 ************************)
translate_lat_to_geos5_native(latitude) == RatDiv(RatAdd(latitude, Rat(90, 1)), Rat(1, 2))

translate_lon_to_geos5_native(longitude) == RatDiv(RatAdd(longitude, Rat(180, 1)), Rat(5, 8))

\* np.abs(k - calc_coord), scaled by calc_coord.den > 0
AbsDiff(k, calc_coord) == Abs(k * calc_coord.den - calc_coord.num)

RECURSIVE ArgMinLastIn(_, _, _)
ArgMinLastIn(a, lo, hi) ==
    IF lo = hi THEN lo
    ELSE LET mid == (lo + hi) \div 2
             l == ArgMinLastIn(a, lo, mid)
             r == ArgMinLastIn(a, mid + 1, hi)
         IN IF a[r] <= a[l] THEN r ELSE l

argmin_last(a) == ArgMinLastIn(a, 1, Len(a))

RECURSIVE ArgMinIn(_, _, _)
\* the first position of the smallest entry among a[lo..hi]: the earliest
\* minimum of the left half wins unless the right half holds a strictly
\* smaller entry (the scan is split in halves to keep the evaluation shallow)
ArgMinIn(a, lo, hi) ==
    IF lo = hi THEN lo
    ELSE LET mid == (lo + hi) \div 2
             l == ArgMinIn(a, lo, mid)
             r == ArgMinIn(a, mid + 1, hi)
         IN IF a[r] < a[l] THEN r ELSE l

\* ndarray.argmin(): position of the first occurrence of the minimum
argmin(a) == ArgMinIn(a, 1, Len(a))

find_closest_coordinate(calc_coord, coord_array) ==
    LET diffs == [i \in 1..Len(coord_array) |-> AbsDiff(coord_array[i], calc_coord)]
        idx == argmin(diffs)
    IN coord_array[idx]

(*********************** generate_download_link, 111-117 *******************)
\* '{base}{y}/{m}/{name}.nc4?{params}'; date is the split of 'YYYY-MM-DD'
generate_download_link(loc, date, base_url, dataset_name, url_params) ==
    LET year == date[1]
        month == date[2]
        day == date[3]
        file_name == generate_file_name(loc, year, month, day, dataset_name)
    IN [base |-> base_url, y |-> year, m |-> month, name |-> file_name.value,
        ext |-> "nc4", params |-> url_params]

(********************** generate_url_with_params, 120-131 ******************)
generate_url_with_params(loc, lat, lon, date) ==
    LET lat_coord == translate_lat_to_geos5_native(lat)
        lon_coord == translate_lon_to_geos5_native(lon)
        lat_closest == find_closest_coordinate(lat_coord, lat_coords)
        lon_closest == find_closest_coordinate(lon_coord, lon_coords)
        requested_lat == <<lat_closest, 1, lat_closest>>
        requested_lon == <<lon_closest, 1, lon_closest>>
        parameter == generate_url_params(<<field_id>>, <<0, 1, 23>>, requested_lat, requested_lon)
    IN generate_download_link("MERRA2", date, database_url, database_id, parameter)

(************************** values of the new column ***********************)
NaN == [isnan |-> TRUE, num |-> 0, den |-> 1]
Value(r) == [isnan |-> FALSE, num |-> r.num, den |-> r.den]

\* conversion_factor = lambda x: x - 273.15 (line 34)
conversion_factor(x) == RatSub(x, Rat(27315, 100))

(************************** the remote data set ****************************)
\* The hourly samples the server holds for a grid cell, in kelvin.
GridSample(lat_index, lon_index, hour) == 250 + ((lat_index + 3 * lon_index + 7 * hour) % 40)

\* The response to a URL: the requested field over the requested subscripts
\* [lo:step:hi]; the script always asks for one cell and step 1.
Serve(url) ==
    LET p == url.params[1]
        hours == p[2]
        n == ((hours[3] - hours[1]) \div hours[2]) + 1
    IN [readable |-> TRUE, field |-> p[1],
        series |-> [k \in 1..n |-> GridSample(p[3][1], p[4][1], hours[1] + (k - 1) * hours[2])]]

Garbage == [readable |-> FALSE, field |-> "", series |-> <<>>]

(***************** DownloadManager, as used at lines 169-174 ***************)
\* The file name the download manager derives from a URL: the part of the
\* last path segment before the trailing '.nc4?', i.e. the generated file name.
get_filename(url) == url.name

\* The files after start_download of one URL into download_path, when the
\* call returns: "ok" stores the response, "garbage" stores an unreadable
\* body (error page, partial transfer), "nothing" stores no file.
Downloaded(files, download_path, url, outcome) ==
    LET target == Append(download_path, get_filename(url)) IN
    IF outcome = "ok" THEN
        [q \in DOMAIN files \cup {target} |-> IF q = target THEN Serve(url) ELSE files[q]]
    ELSE IF outcome = "garbage" THEN
        [q \in DOMAIN files \cup {target} |-> IF q = target THEN Garbage ELSE files[q]]
    ELSE files

(************************** main loop, helpers *****************************)
\* field_name + '/' + loc + '/' + file_name (lines 168, 179)
CachePath(loc, file_name) == <<field_name, loc, file_name>>

\* field_name + '/' + loc (line 171)
DownloadPath(loc) == <<field_name, loc>>

path_exists_never(files, p) == FALSE

\* os.path.exists (line 168)
path_exists(files, p) == p \in DOMAIN files

\* lines 162-164, 167: the row's year and the file name generated for it
RowYear(row) == int(row.collected_at[1])

RowFileName(row) ==
    generate_file_name("MERRA2", row.collected_at[1], row.collected_at[2],
                       row.collected_at[3], database_id).value

RowPath(row) == CachePath(row.station_name, RowFileName(row))

\* line 173
RowUrls(row) == <<generate_url_with_params("MERRA2", row.latitude, row.longitude, row.collected_at)>>

RECURSIVE SeqSum(_)
SeqSum(s) == IF Len(s) = 0 THEN 0 ELSE s[1] + SeqSum(Tail(s))

\* lines 179-182: open the file, reduce the field with the aggregator, convert.
\* Raised when the file is missing or unreadable or lacks the field.
Aggregate(files, p) ==
    IF ~(p \in DOMAIN files) THEN Raise("FileNotFoundError")
    ELSE IF ~files[p].readable THEN Raise("OSError")
    ELSE IF files[p].field # field_id THEN Raise("KeyError")
    ELSE LET series == files[p].series
             daily_mean == Rat(SeqSum(series), Len(series))
         IN Return(Value(conversion_factor(daily_mean)))

InputColumns == <<"station_name", "latitude", "longitude", "collected_at">>

InputCells(row) == << <<row.station_name>>, <<row.latitude>>, <<row.longitude>>, <<row.collected_at>> >>

\* DataFrame.to_csv(path), line 186: index=True by default, so the row index
\* is written as a first column with an empty header; NaN is an empty cell.
to_csv(frame, has, col) ==
    [header |-> <<"">> \o InputColumns \o (IF has THEN <<field_name>> ELSE <<>>),
     rows |-> [i \in 1..Len(frame) |->
                  << <<i - 1>> >> \o InputCells(frame[i])
                  \o (IF has THEN <<IF col[i - 1].isnan THEN <<>> ELSE <<col[i - 1]>> >> ELSE <<>>)]]

(***************************** inputs **************************************)
Stations == {"A", "B"}

\* (latitude, longitude) in degrees: an interior point, and a point on a
\* latitude tie (native 0.5) at the eastern edge (native 576)
Coordinates == { <<Rat(40, 1), Rat(-105, 1)>>, <<Rat(-359, 4), Rat(180, 1)>> }

\* 'YYYY-MM-DD'.split('-')
Date2015 == << <<2, 0, 1, 5>>, <<0, 6>>, <<0, 1>> >>
Date1979 == << <<1, 9, 7, 9>>, <<1, 2>>, <<3, 1>> >>

MkRow(s, c, d) == [station_name |-> s, latitude |-> c[1], longitude |-> c[2], collected_at |-> d]

RowUniverse ==
    {MkRow(s, c, Date2015) : s \in Stations, c \in Coordinates}
    \cup {MkRow("A", <<Rat(40, 1), Rat(-105, 1)>>, Date1979)}

Tables == UNION {[1..n -> RowUniverse] : n \in 0..MaxRows}

AllPaths == {RowPath(r) : r \in {x \in RowUniverse : RowYear(x) >= 1980}}

AllUrls == {RowUrls(r)[1] : r \in {x \in RowUniverse : RowYear(x) >= 1980}}

\* a file found on disk before the first run: unreadable, or an earlier
\* download for the interior point
OldContents == {Garbage, Serve(RowUrls(MkRow("A", <<Rat(40, 1), Rat(-105, 1)>>, Date2015))[1])}

FileSystems == UNION {[S -> OldContents] : S \in SUBSET AllPaths}

Outcomes == {"ok", "garbage", "nothing", "raise"}

NoCall == /\ fn = "none"
          /\ arg = 0
          /\ ret = 0

(****************************** the script *********************************)
Init ==
    /\ argv \in {<<"merra_scraper_latest.py">>, <<"merra_scraper_latest.py", "input.csv">>}
    /\ pc = "start"
    /\ run = 1
    /\ input \in (IF Len(argv) < 2 THEN {<<>>} ELSE Tables)
    /\ fs \in (IF Len(argv) < 2 THEN {<<>>} ELSE FileSystems)
    /\ remote \in (IF Len(argv) < 2 THEN {[u \in AllUrls |-> "ok"]} ELSE [AllUrls -> Outcomes])
    /\ fs0 = fs
    /\ complete_dataset = <<>>
    /\ index = 0
    /\ hasColumn = FALSE
    /\ column = <<>>
    /\ calls = <<>>
    /\ opens = {}
    /\ output = <<>>
    /\ writes = 0
    /\ NoCall

\* lines 18-20: no file argument, usage message and exit status 1
Usage ==
    /\ pc = "start"
    /\ Len(argv) < 2
    /\ pc' = "exit1"
    /\ UNCHANGED <<argv, run, complete_dataset, index, hasColumn, column, fs, remote,
                   calls, opens, input, fs0, output, writes, fn, arg, ret>>

\* lines 22-26, 159: read the table; the frame has the input's columns only
ReadTable ==
    /\ pc = "start"
    /\ Len(argv) >= 2
    /\ complete_dataset' = input
    /\ index' = 0
    /\ hasColumn' = FALSE
    /\ column' = [i \in 0..(Len(input) - 1) |-> NaN]
    /\ fs0' = fs
    /\ pc' = "loop"
    /\ UNCHANGED <<argv, run, fs, remote, calls, opens, input, output, writes, fn, arg, ret>>

Row == complete_dataset[index + 1]

SkipRowBreak ==
    /\ pc = "loop"
    /\ index < Len(complete_dataset)
    /\ RowYear(Row) < 1980
    /\ index' = Len(complete_dataset)
    /\ UNCHANGED <<argv, pc, run, complete_dataset, hasColumn, column, fs, remote,
                   calls, opens, input, fs0, output, writes, fn, arg, ret>>

\* lines 161-166: a row dated before 1980 is passed over
SkipRow ==
    /\ pc = "loop"
    /\ index < Len(complete_dataset)
    /\ RowYear(Row) < 1980
    /\ index' = index + 1
    /\ UNCHANGED <<argv, pc, run, complete_dataset, hasColumn, column, fs, remote,
                   calls, opens, input, fs0, output, writes, fn, arg, ret>>

FetchHitNextRow ==
    /\ pc = "loop"
    /\ index < Len(complete_dataset)
    /\ RowYear(Row) >= 1980
    /\ path_exists(fs, RowPath(Row))
    /\ index' = index + 1
    /\ UNCHANGED <<argv, pc, run, complete_dataset, hasColumn, column, fs, remote,
                   calls, opens, input, fs0, output, writes, fn, arg, ret>>

\* lines 167-168, 175-176: the file is there, nothing is fetched
FetchHit ==
    /\ pc = "loop"
    /\ index < Len(complete_dataset)
    /\ RowYear(Row) >= 1980
    /\ path_exists(fs, RowPath(Row))
    /\ pc' = "aggregate"
    /\ UNCHANGED <<argv, run, complete_dataset, index, hasColumn, column, fs, remote,
                   calls, opens, input, fs0, output, writes, fn, arg, ret>>

\* lines 167-174: the file is not there; one download manager is given the
\* row's URL and started.  An exception of start_download is not caught
\* anywhere, so it ends the script with a traceback.
FetchDownload ==
    /\ pc = "loop"
    /\ index < Len(complete_dataset)
    /\ RowYear(Row) >= 1980
    /\ ~path_exists(fs, RowPath(Row))
    /\ LET download_path == DownloadPath(Row.station_name)
           download_urls == RowUrls(Row)
           outcome == remote[download_urls[1]]
       IN /\ calls' = Append(calls, [index |-> index, download_path |-> download_path,
                                     download_urls |-> download_urls,
                                     connections |-> NUMBER_OF_CONNECTIONS])
          /\ fs' = Downloaded(fs, download_path, download_urls[1], outcome)
          /\ pc' = IF outcome = "raise" THEN "aborted" ELSE "aggregate"
    /\ UNCHANGED <<argv, run, complete_dataset, index, hasColumn, column, remote,
                   opens, input, fs0, output, writes, fn, arg, ret>>

AggregateFailAborts ==
    /\ pc = "aggregate"
    /\ Aggregate(fs, RowPath(Row)).raised
    /\ opens' = opens \cup {index}
    /\ pc' = "aborted"
    /\ UNCHANGED <<argv, run, complete_dataset, index, hasColumn, column, fs, remote,
                   calls, input, fs0, output, writes, fn, arg, ret>>

\* lines 178-185, except branch: a message is printed, the frame is not touched
AggregateFail ==
    /\ pc = "aggregate"
    /\ Aggregate(fs, RowPath(Row)).raised
    /\ opens' = opens \cup {index}
    /\ index' = index + 1
    /\ pc' = "loop"
    /\ UNCHANGED <<argv, run, complete_dataset, hasColumn, column, fs, remote,
                   calls, input, fs0, output, writes, fn, arg, ret>>

\* lines 178-182: the value is stored at [index, field_name]; the first
\* store creates the column, NaN in every other row
AggregateOk ==
    /\ pc = "aggregate"
    /\ ~Aggregate(fs, RowPath(Row)).raised
    /\ opens' = opens \cup {index}
    /\ hasColumn' = TRUE
    /\ column' = [column EXCEPT ![index] = Aggregate(fs, RowPath(Row)).value]
    /\ index' = index + 1
    /\ pc' = "loop"
    /\ UNCHANGED <<argv, run, complete_dataset, fs, remote,
                   calls, input, fs0, output, writes, fn, arg, ret>>

\* lines 186-188: after the loop the frame is written
WriteOutput ==
    /\ pc = "loop"
    /\ index = Len(complete_dataset)
    /\ output' = to_csv(complete_dataset, hasColumn, column)
    /\ writes' = writes + 1
    /\ pc' = "done"
    /\ UNCHANGED <<argv, run, complete_dataset, index, hasColumn, column, fs, remote,
                   calls, opens, input, fs0, fn, arg, ret>>

\* the user starts the script again on the same input; local files and the
\* earlier output stay, everything in memory starts afresh
Rerun ==
    /\ pc \in {"done", "aborted"}
    /\ run < MaxRuns
    /\ run' = run + 1
    /\ pc' = "start"
    /\ complete_dataset' = <<>>
    /\ index' = 0
    /\ hasColumn' = FALSE
    /\ column' = <<>>
    /\ calls' = <<>>
    /\ opens' = {}
    /\ writes' = 0
    /\ fs0' = fs
    /\ UNCHANGED <<argv, fs, remote, input, output, fn, arg, ret>>

Next ==
    \/ Usage
    \/ ReadTable
    \/ SkipRow
    \/ FetchHit
    \/ FetchDownload
    \/ AggregateFail
    \/ AggregateOk
    \/ WriteOutput
    \/ Rerun

Spec == Init /\ [][Next]_vars

(************************ the helpers, called alone *************************)
LatInputs == {Rat(n, Resolution) : n \in (-(90 + Margin) * Resolution)..((90 + Margin) * Resolution)}

LonInputs == {Rat(n, Resolution) : n \in (-(180 + Margin) * Resolution)..((180 + Margin) * Resolution)}

YearRange == (1980 - YearSpan)..(2011 + YearSpan)

YearInputs == {str(y) : y \in YearRange}

InitHelpers ==
    /\ argv = <<"merra_scraper_latest.py">>
    /\ pc = "call"
    /\ run = 1
    /\ input = <<>>
    /\ fs = <<>>
    /\ remote = [u \in AllUrls |-> "ok"]
    /\ fs0 = <<>>
    /\ complete_dataset = <<>>
    /\ index = 0
    /\ hasColumn = FALSE
    /\ column = <<>>
    /\ calls = <<>>
    /\ opens = {}
    /\ output = <<>>
    /\ writes = 0
    /\ ret = 0
    /\ \/ fn = "lat" /\ arg \in LatInputs
       \/ fn = "lon" /\ arg \in LonInputs
       \/ fn = "year" /\ arg \in YearInputs

Frame == UNCHANGED <<argv, run, complete_dataset, index, hasColumn, column, fs, remote,
                     calls, opens, input, fs0, output, writes, fn, arg>>

\* lines 121, 124
SnapLatitude ==
    /\ pc = "call"
    /\ fn = "lat"
    /\ ret' = find_closest_coordinate(translate_lat_to_geos5_native(arg), lat_coords)
    /\ pc' = "returned"
    /\ Frame

\* lines 122, 125
SnapLongitude ==
    /\ pc = "call"
    /\ fn = "lon"
    /\ ret' = find_closest_coordinate(translate_lon_to_geos5_native(arg), lon_coords)
    /\ pc' = "returned"
    /\ Frame

\* line 79
FileNumber ==
    /\ pc = "call"
    /\ fn = "year"
    /\ ret' = translate_year_to_file_number(arg)
    /\ pc' = "returned"
    /\ Frame

NextHelpers ==
    \/ SnapLatitude
    \/ SnapLongitude
    \/ FileNumber

SpecHelpers == InitHelpers /\ [][NextHelpers]_vars

(******************************** claims ***********************************)
AtRow == pc = "loop" /\ index < Len(complete_dataset)

\* C1: a processed row (year >= 1980) whose cache path
\* <field_name>/<station>/<file_name> holds a file gets no download call; one
\* whose path holds no file gets exactly one call, whose URL list is the one
\* URL computed from the row's latitude, longitude and date.  No other step
\* of the run issues a call.
FetchOrSkip ==
    [][ IF AtRow /\ int(Row.collected_at[1]) >= 1980
        THEN IF <<field_name, Row.station_name, RowFileName(Row)>> \in DOMAIN fs
             THEN calls' = calls
             ELSE /\ Len(calls') = Len(calls) + 1
                  /\ SubSeq(calls', 1, Len(calls)) = calls
                  /\ calls'[Len(calls')].index = index
                  /\ calls'[Len(calls')].download_urls =
                         <<generate_url_with_params("MERRA2", Row.latitude, Row.longitude,
                                                    Row.collected_at)>>
                  /\ \A k \in 1..Len(calls) : calls[k].index < index
        ELSE calls' = calls \/ (pc' = "start" /\ calls' = <<>>) ]_vars

\* Row 0 was a cache hit (no call) and row 1 a miss (one call).
FetchOrSkipWitness ==
    /\ pc = "aggregate"
    /\ index = 1
    /\ int(complete_dataset[1].collected_at[1]) >= 1980
    /\ Len(calls) = 1
    /\ calls[1].index = 1

ReadErrorKeepsGoing ==
    [][ /\ (pc = "aggregate"
            /\ (~(RowPath(Row) \in DOMAIN fs) \/ ~fs[RowPath(Row)].readable
                \/ fs[RowPath(Row)].field # field_id)) =>
              /\ column' = column
              /\ column[index].isnan
              /\ hasColumn' = hasColumn
              /\ index \in opens'
              /\ pc' = "loop"
              /\ index' = index + 1
        /\ pc' # "start" =>
              \A i \in DOMAIN column : i < index => (i \in DOMAIN column' /\ column'[i] = column[i]) ]_vars

\* Row 0 was aggregated, then the read of row 1 failed.
ReadErrorKeepsGoingWitness ==
    /\ pc = "loop"
    /\ index = 2
    /\ opens = {0, 1}
    /\ ~column[0].isnan
    /\ column[1].isnan

\* C4: a run that read its table and has ended wrote the output table exactly
\* once, after the last row was handled.
RunWritesOnce ==
    pc \in {"done", "aborted"} => (writes = 1 /\ index = Len(complete_dataset))

\* What a row gets when it is the only row processed, starting from `files`.
AloneResult(row, files, env) ==
    IF RowYear(row) < 1980 THEN [download |-> FALSE, value |-> NaN]
    ELSE LET p == RowPath(row)
             miss == ~(p \in DOMAIN files)
             url == RowUrls(row)[1]
             after == IF miss
                      THEN Downloaded(files, DownloadPath(row.station_name), url, env[url])
                      ELSE files
             agg == Aggregate(after, p)
         IN [download |-> miss,
             value |-> IF (miss /\ env[url] = "raise") \/ agg.raised THEN NaN ELSE agg.value]

\* C5: rows are independent: when the run has gone through the whole table,
\* the value (or gap) each row ended with is the one the row gets when it is
\* processed alone from the file system the run started with, whatever the
\* earlier rows downloaded.  (The claim says the same of whether a download
\* is issued for the row.)
RowsIndependent ==
    pc = "done" =>
        \A i \in 0..(Len(complete_dataset) - 1) :
            column[i] = AloneResult(complete_dataset[i + 1], fs0, remote).value

\* C6: the written table is the input's rows and columns plus exactly one
\* appended column, the field column, set for the rows that aggregated and
\* empty for the others.
OutputIsInputPlusColumn ==
    (pc = "done" /\ writes = 1) =>
        /\ output.header = InputColumns \o <<field_name>>
        /\ Len(output.rows) = Len(input)
        /\ \A i \in 1..Len(input) :
              output.rows[i] = InputCells(input[i])
                               \o << IF column[i - 1].isnan THEN <<>> ELSE <<column[i - 1]>> >>

InDegrees(x, lo, hi) == RatLeq(Rat(lo, 1), x) /\ RatLeq(x, Rat(hi, 1))

\* C7: for latitude in [-90, 90] and longitude in [-180, 180], translating
\* and snapping gives a latitude index in 0..360 and a longitude index in
\* 0..575.
GridIndexInBounds ==
    pc = "returned" =>
        /\ (fn = "lat" /\ InDegrees(arg, -90, 90)) => ret \in 0..360
        /\ (fn = "lon" /\ InDegrees(arg, -180, 180)) => ret \in 0..575

\* Longitude 180 has native coordinate 576 and snaps to the last index.
GridIndexInBoundsWitness ==
    /\ pc = "returned"
    /\ fn = "lon"
    /\ RatEq(arg, Rat(180, 1))
    /\ ret = 575

\* C8: 1980..1991 gives '100', 1992..2000 '200', 2001..2010 '300', 2011 and
\* later '400'; a year before 1980 raises and returns no code.
YearBrackets ==
    (pc = "returned" /\ fn = "year") =>
        \A y \in YearRange :
            arg = str(y) =>
                /\ (1980 <= y /\ y <= 1991) => ret = Return("100")
                /\ (1992 <= y /\ y <= 2000) => ret = Return("200")
                /\ (2001 <= y /\ y <= 2010) => ret = Return("300")
                /\ 2011 <= y => ret = Return("400")
                /\ y < 1980 => ret.raised

\* 1992 is the first year of the second bracket.
YearBracketsWitness ==
    /\ pc = "returned"
    /\ fn = "year"
    /\ arg = <<1, 9, 9, 2>>
    /\ ret = Return("200")

ClosestIsFirstMinimizer ==
    (pc = "returned" /\ fn \in {"lat", "lon"}) =>
        LET c == IF fn = "lat" THEN translate_lat_to_geos5_native(arg)
                               ELSE translate_lon_to_geos5_native(arg)
            last == IF fn = "lat" THEN 360 ELSE 575
        IN /\ ret \in 0..last
           /\ \A k \in 0..last :
                 /\ Abs(ret * c.den - c.num) <= Abs(k * c.den - c.num)
                 /\ Abs(ret * c.den - c.num) = Abs(k * c.den - c.num) => ret <= k

\* A coordinate exactly halfway between two indices was snapped to the lower.
ClosestIsFirstMinimizerWitness ==
    /\ pc = "returned"
    /\ fn \in {"lat", "lon"}
    /\ LET c == IF fn = "lat" THEN translate_lat_to_geos5_native(arg)
                              ELSE translate_lon_to_geos5_native(arg)
       IN /\ 2 * c.num = (2 * ret + 1) * c.den
          /\ ret >= 0

====
